---- MODULE Spec2Model ----
(***************************************************************************)
(* The playground driver `Oxc` of napi/playground/src/lib.rs: one driver   *)
(* object whose public fields hold the views of the last run, `run`, the   *)
(* diagnostics getter, the scope text writer and the comment mapper.       *)
(*                                                                         *)
(* Texts produced by the external stages (parser, semantic analysis,       *)
(* linter, prettier, transformer, minifier, code generator) are unknown    *)
(* functions of what the stage is given. A produced text is written as the *)
(* tuple <<stage, arguments...>>, so two texts are equal exactly when the  *)
(* stage got the same arguments. The empty String is the empty tuple.      *)
(***************************************************************************)
EXTENDS Integers, Sequences, FiniteSets, TLC

VARIABLES
    oxc,      \* the fields of the `Oxc` struct
    ret,      \* what the last call of run returned: "Ok" or "Err"
    input,    \* the (source_text, options) of the last call of run
    hist,     \* the record of the last call of run: the stages it ran in order
              \* (trace), the diagnostics it saved, the sink after each call
              \* of save_diagnostics (sinks), the sink as run_linter found it
              \* (gate) and as the call found it (entry), the fields that
              \* held something when the call was entered (held), and whether
              \* its input was that of the call before (repeated)
    runs,     \* number of calls of run so far
    flat,     \* Some(the Vec the last call of get_diagnostics returned)
    writer,   \* the ScopesTextWriter of get_scope_text
    visit     \* position of the visitor that drives the writer

vars == <<oxc, ret, input, hist, runs, flat, writer, visit>>

\* ------------------------------------------------------------------ bounds

MaxRuns == 2      \* calls of run on one driver
MaxDiags == 2     \* diagnostics in the list handed to get_diagnostics
MaxLabels == 2    \* labels of one diagnostic
MaxScopes == 4    \* scopes of a visited program
MaxChars == 1     \* characters in each free segment of a source text

\* ----------------------------------------------------------------- helpers

None == <<>>
Some(x) == <<x>>
IsSome(o) == Len(o) = 1
Unwrap(o) == o[1]

Range(s) == { s[i] : i \in 1..Len(s) }

RECURSIVE Concat(_)
\* The concatenation of a sequence of sequences (Iterator::flat_map).
Concat(ss) == IF ss = <<>> THEN <<>> ELSE Head(ss) \o Concat(Tail(ss))

RECURSIVE SumTo(_, _)
\* Sum of f[1..n].
SumTo(f, n) == IF n = 0 THEN 0 ELSE f[n] + SumTo(f, n - 1)

\* The sequences over S of length at most n.
SeqUpTo(S, n) == UNION { [1..k -> S] : k \in 0..n }

\* ------------------------------------------------------------ source texts
\* A source text is its UTF-8 bytes. A byte is "a" (an ASCII byte), "/" and
\* "*" (ASCII, the comment delimiters), "L2" (lead byte of a 2-byte
\* character), "L4" (lead byte of a 4-byte character) or "c" (continuation).

CharBytes(ch) ==
    CASE ch = "e2" -> <<"L2", "c">>            \* 2 bytes, 1 UTF-16 unit
      [] ch = "e4" -> <<"L4", "c", "c", "c">>  \* 4 bytes, 2 UTF-16 units
      [] OTHER     -> <<ch>>                   \* ASCII

Chars == {"a", "e2", "e4"}

\* Segments: at most MaxChars characters.
Segments == { Concat([i \in 1..Len(cs) |-> CharBytes(cs[i])]) : cs \in SeqUpTo(Chars, MaxChars) }

\* UTF-16 code units a byte starts.
Units(b) == CASE b = "c" -> 0 [] b = "L4" -> 2 [] OTHER -> 1

IsAscii(text) == \A i \in 1..Len(text) : text[i] \notin {"L2", "L4", "c"}

Span(start, end) == [start |-> start, end |-> end]

\* Span::source_text: the bytes of text from span.start up to span.end.
SourceText(span, text) == SubSeq(text, span.start + 1, span.end)

\* A parsed text: block comment, a statement, then a line comment to the end
\*     pre /* body */ mid // tail
\* with its raw comments and the spans of its tree nodes (the program and
\* the statement `mid`), all in byte offsets.
MakeText(pre, body, mid, tail) ==
    LET b0 == Len(pre)
        b1 == b0 + 2 + Len(body) + 2
        m1 == b1 + Len(mid)
        text == pre \o <<"/", "*">> \o body \o <<"*", "/">> \o mid \o <<"/", "/">> \o tail
    IN  [ text |-> text,
          spans |-> << Span(0, Len(text)), Span(b1, m1) >>,
          comments |-> << [kind |-> "Block", span |-> Span(b0, b1)],
                          [kind |-> "Line", span |-> Span(m1, Len(text))] >> ]

Texts == { MakeText(p, b, m, t) : p \in Segments, b \in Segments, m \in Segments, t \in Segments }

\* ------------------------------------------------- span coordinate translation
\* Utf8ToUtf16 (oxc_ast_visit): the UTF-16 offset of a byte offset is the
\* number of UTF-16 code units of the text before it.

Utf16Offset(text, offset) == SumTo([i \in 1..Len(text) |-> Units(text[i])], offset)

\* Utf8ToUtf16::new then ::converter: no converter for an ASCII-only text,
\* else the table from byte offsets to UTF-16 offsets.
Utf8ToUtf16(text) ==
    IF IsAscii(text) THEN None
    ELSE Some([o \in 0..Len(text) |-> Utf16Offset(text, o)])

\* Utf8ToUtf16Converter::convert_span
ConvertSpan(table, span) == Span(table[span.start], table[span.end])

\* Utf8ToUtf16::convert_program: every span of the tree, once.
ConvertProgram(span_converter, program) ==
    IF IsSome(span_converter)
    THEN [program EXCEPT !.spans = [i \in 1..Len(@) |-> ConvertSpan(Unwrap(span_converter), @[i])],
                         !.utf16 = @ + 1]
    ELSE [program EXCEPT !.utf16 = @ + 1]

\* Comment::content_span: the comment without its delimiters.
ContentSpan(comment) ==
    IF comment.kind = "Line"
    THEN Span(comment.span.start + 2, comment.span.end)
    ELSE Span(comment.span.start + 2, comment.span.end - 2)

\* A bug to compare with: the span is not translated.
MapCommentsUntranslated(source_text, comments, span_converter) ==
    [ i \in 1..Len(comments) |->
        [ type  |-> comments[i].kind,
          value |-> SourceText(ContentSpan(comments[i]), source_text),
          start |-> comments[i].span.start,
          end   |-> comments[i].span.end ] ]

\* A bug to compare with: the text of a comment is read at the translated
\* offsets.
MapCommentsTranslatedText(source_text, comments, span_converter) ==
    [ i \in 1..Len(comments) |->
        LET comment == comments[i]
            span == IF IsSome(span_converter)
                    THEN ConvertSpan(Unwrap(span_converter), comment.span)
                    ELSE comment.span
            value == SourceText(ContentSpan([comment EXCEPT !.span = span]), source_text)
        IN  [ type  |-> IF comment.kind = "Line" THEN "Line" ELSE "Block",
              value |-> value,
              start |-> span.start,
              end   |-> span.end ] ]

\* Oxc::map_comments
MapComments(source_text, comments, span_converter) ==
    [ i \in 1..Len(comments) |->
        LET comment == comments[i]
            value == SourceText(ContentSpan(comment), source_text)
            span == IF IsSome(span_converter)
                    THEN ConvertSpan(Unwrap(span_converter), comment.span)
                    ELSE comment.span
        IN  [ type  |-> IF comment.kind = "Line" THEN "Line" ELSE "Block",
              value |-> value,
              start |-> span.start,
              end   |-> span.end ] ]

\* A bug to compare with: the tree is translated a second time.
ConvertAstTwice(self, program) ==
    LET span_converter == Utf8ToUtf16(program.source_text)
        converted == ConvertProgram(span_converter, ConvertProgram(span_converter, program))
    IN  [self EXCEPT
           !.ast_json = <<"estree", converted>>,
           !.comments = MapComments(program.source_text, program.comments, span_converter)]

\* Oxc::convert_ast, on the driver's fields: ast_json and comments.
ConvertAst(self, program) ==
    LET span_converter == Utf8ToUtf16(program.source_text)
        converted == ConvertProgram(span_converter, program)
    IN  [self EXCEPT
           !.ast_json = <<"estree", converted>>,
           !.comments = MapComments(program.source_text, program.comments, span_converter)]

\* ------------------------------------------------------------- diagnostics
\* oxc::diagnostics::OxcDiagnostic: severity, message, labels: Option<Vec<_>>.

Diagnostic(severity, message, labels) ==
    [severity |-> severity, message |-> message, labels |-> labels]

Label(offset, len) == [offset |-> offset, len |-> len]

\* Oxc::get_diagnostics
GetDiagnostics(diagnostics) ==
    Concat([ i \in 1..Len(diagnostics) |->
        LET error == diagnostics[i] IN
        IF IsSome(error.labels)
        THEN [ j \in 1..Len(Unwrap(error.labels)) |->
                 LET label == Unwrap(error.labels)[j] IN
                 [ start |-> label.offset,
                   end |-> label.offset + label.len,
                   severity |-> error.severity,
                   message |-> error.message ] ]
        ELSE << [start |-> 0, end |-> 0, severity |-> error.severity, message |-> error.message] >> ])

\* ---------------------------------------------------------------- options
\* OxcOptions, flattened. An Option<bool> read with unwrap_or_default() is
\* the boolean it is read as; the other options keep their Option.

DefaultOptions ==
    [ \* run
      syntax |-> FALSE, lint |-> FALSE, scope |-> FALSE, symbol |-> FALSE,
      transform |-> FALSE, prettier_format |-> FALSE, prettier_ir |-> FALSE,
      \* parser
      source_filename |-> None, source_type |-> None,
      allow_return_outside_function |-> None, preserve_parens |-> None,
      allow_v8_intrinsics |-> None,
      \* transformer
      isolated_declarations |-> None, target |-> None,
      \* codegen
      enable_sourcemap |-> FALSE,
      \* minifier
      compress |-> FALSE, mangle |-> FALSE, whitespace |-> FALSE,
      drop_console |-> FALSE, drop_debugger |-> FALSE,
      \* control_flow
      verbose |-> FALSE ]

\* PathBuf::from(source_filename.unwrap_or("test.tsx"))
PathOf(options) ==
    IF IsSome(options.source_filename) THEN Unwrap(options.source_filename) ELSE "test.tsx"

\* SourceType::from_path(..).unwrap_or_default(), then the script / module
\* override, which leaves the rest of the source type as it is.
SourceTypeOf(options) ==
    LET path == PathOf(options)
        from_path == [ language |-> IF path = "lib.d.ts" THEN "TypeScriptDefinition" ELSE "TypeScript",
                       module_kind |-> "module",
                       jsx |-> path = "test.tsx" ]
    IN  CASE options.source_type = Some("script") -> [from_path EXCEPT !.module_kind = "script"]
          [] options.source_type = Some("module") -> [from_path EXCEPT !.module_kind = "module"]
          [] OTHER -> from_path

\* SourceType::is_typescript_definition
IsTypescriptDefinition(source_type) == source_type.language = "TypeScriptDefinition"

\* ParseOptions::default() gives false, true, false.
ParseOptionsOf(options) ==
    [ parse_regular_expression |-> TRUE,
      allow_return_outside_function |->
          IF IsSome(options.allow_return_outside_function)
          THEN Unwrap(options.allow_return_outside_function) ELSE FALSE,
      preserve_parens |->
          IF IsSome(options.preserve_parens) THEN Unwrap(options.preserve_parens) ELSE TRUE,
      allow_v8_intrinsics |->
          IF IsSome(options.allow_v8_intrinsics)
          THEN Unwrap(options.allow_v8_intrinsics) ELSE FALSE ]

\* ---------------------------------------------------------- external stages
\* A source is its text (with the tree spans and raw comments the parser
\* finds in it) and what each fallible stage reports for it.

Source(parsed, syntax, semantic, lint, isolated, transform, encoding_fails) ==
    [ text |-> parsed.text, spans |-> parsed.spans, comments |-> parsed.comments,
      syntax_errors |-> syntax, semantic_errors |-> semantic, lint |-> lint,
      isolated_errors |-> isolated, transform_errors |-> transform,
      encoding_fails |-> encoding_fails ]

\* Parser::parse: the program, as what it was parsed from.
Parse(source, source_type, parse_options) ==
    [ source_text |-> source.text, source_type |-> source_type, options |-> parse_options,
      spans |-> source.spans, comments |-> source.comments,
      transformed |-> None, minified |-> None, utf16 |-> 0 ]

\* CodeGenerator::build: the code, and a source map when given a path for it.
Codegen(program, scoping, minify, source_map_path) ==
    [ code |-> <<"code", program, scoping, minify>>,
      map |-> IF IsSome(source_map_path)
              THEN Some(<<"sourcemap", program, scoping, minify, Unwrap(source_map_path)>>)
              ELSE None ]

\* TransformOptions::from_target: Ok(options) or Err(message).
FromTarget(target) ==
    IF target = "es2015"
    THEN [ok |-> TRUE, options |-> <<"target", target>>]
    ELSE [ok |-> FALSE, err |-> "Invalid target"]

\* Minifier::build: the program rewritten, and the scoping of the mangler.
Minify(program, minifier_options) ==
    LET minified == [program EXCEPT !.minified = Some(minifier_options)]
    IN  [ program |-> minified,
          scoping |-> IF IsSome(minifier_options.mangle)
                      THEN Some(<<"scoping", minified>>) ELSE None ]

\* ------------------------------------------------------------- the driver

\* Oxc::default()
NewOxc ==
    [ ast_json |-> <<>>, ir |-> <<>>, control_flow_graph |-> <<>>, symbols_json |-> <<>>,
      scope_text |-> <<>>, codegen_text |-> <<>>, codegen_sourcemap_text |-> None,
      formatted_text |-> <<>>, prettier_formatted_text |-> <<>>, prettier_ir_text |-> <<>>,
      comments |-> <<>>, diagnostics |-> <<>> ]

\* A call of run in progress: the driver's fields, the result to return, and
\* the record of the call: the stages run so far in order, the diagnostics
\* handed to save_diagnostics so far, the sink as run_linter found it.
Stage(m, name) == [m EXCEPT !.trace = Append(@, name)]

\* A bug to compare with: the batch is put in front of the sink.
SaveDiagnosticsPrepended(m, diagnostics) ==
    [m EXCEPT !.oxc.diagnostics = diagnostics \o @, !.saved = @ \o diagnostics,
              !.sinks = Append(@, diagnostics \o m.oxc.diagnostics)]

\* Oxc::save_diagnostics
SaveDiagnostics(m, diagnostics) ==
    [m EXCEPT !.oxc.diagnostics = @ \o diagnostics, !.saved = @ \o diagnostics,
              !.sinks = Append(@, m.oxc.diagnostics \o diagnostics)]

\* A bug to compare with: the sink is not replaced.
ResetDiagnosticsKept(self) == self

\* `self.diagnostics = RefCell::default()`
ResetDiagnostics(self) == [self EXCEPT !.diagnostics = <<>>]

Enter(self) ==
    [oxc |-> ResetDiagnostics(self), ret |-> "Ok", trace |-> <<>>, saved |-> <<>>,
     sinks |-> <<>>, gate |-> None]

\* A bug to compare with: the errors are saved whatever run_options.syntax.
AnalyseUnconditional(m, options, source, program) ==
    LET m1 == Stage(Stage(m, "parser"), "semantic")
        m2 == [m1 EXCEPT !.oxc.control_flow_graph = <<"cfg", program, options.verbose>>]
    IN  SaveDiagnostics(m2, source.syntax_errors \o source.semantic_errors)

\* Parser and SemanticBuilder have run: the control flow graph, and their
\* errors if run_options.syntax.
Analyse(m, options, source, program) ==
    LET m1 == Stage(Stage(m, "parser"), "semantic")
        m2 == [m1 EXCEPT !.oxc.control_flow_graph = <<"cfg", program, options.verbose>>]
    IN  IF options.syntax
        THEN SaveDiagnostics(m2, source.syntax_errors \o source.semantic_errors)
        ELSE m2

\* A bug to compare with: the linter does not look at the sink.
RunLinterUngated(m, run_options, source, program) ==
    LET at_gate == [m EXCEPT !.gate = Some(m.oxc.diagnostics)]
    IN  IF run_options.lint
        THEN SaveDiagnostics(Stage(at_gate, "linter"), source.lint)
        ELSE at_gate

\* Oxc::run_linter
RunLinter(m, run_options, source, program) ==
    LET at_gate == [m EXCEPT !.gate = Some(m.oxc.diagnostics)]
    IN  IF run_options.lint /\ at_gate.oxc.diagnostics = <<>>
        THEN SaveDiagnostics(Stage(at_gate, "linter"), source.lint)
        ELSE at_gate

\* ParseOptions::default()
DefaultParseOptions ==
    [ parse_regular_expression |-> FALSE, allow_return_outside_function |-> FALSE,
      preserve_parens |-> TRUE, allow_v8_intrinsics |-> FALSE ]

\* SourceType::default()
DefaultSourceType == [language |-> "JavaScript", module_kind |-> "script", jsx |-> FALSE]

\* A bug to compare with: the source is parsed for the formatter with the
\* parser options of the call.
RunPrettierCallOptions(m, run_options, source, source_type) ==
    IF run_options.prettier_format \/ run_options.prettier_ir
    THEN LET parsed == Parse(source, source_type,
                             [ParseOptionsOf(run_options) EXCEPT !.preserve_parens = FALSE])
             m1 == IF run_options.prettier_format
                   THEN [Stage(m, "prettier_format") EXCEPT
                           !.oxc.prettier_formatted_text = <<"prettier", parsed>>]
                   ELSE m
         IN  IF run_options.prettier_ir
             THEN [Stage(m1, "prettier_ir") EXCEPT
                     !.oxc.prettier_ir_text =
                         <<"prettier", <<"parse", <<"doc", parsed>>, DefaultSourceType>> >>]
             ELSE m1
    ELSE m

\* Oxc::run_prettier
RunPrettier(m, run_options, source, source_type) ==
    IF run_options.prettier_format \/ run_options.prettier_ir
    THEN LET parsed == Parse(source, source_type,
                             [DefaultParseOptions EXCEPT !.preserve_parens = FALSE])
             m1 == IF run_options.prettier_format
                   THEN [Stage(m, "prettier_format") EXCEPT
                           !.oxc.prettier_formatted_text = <<"prettier", parsed>>]
                   ELSE m
         IN  IF run_options.prettier_ir
             THEN [Stage(m1, "prettier_ir") EXCEPT
                     !.oxc.prettier_ir_text =
                         <<"prettier", <<"parse", <<"doc", parsed>>, DefaultSourceType>> >>]
             ELSE m1
    ELSE m

\* A bug to compare with: the scope text is pushed onto the field.
ViewsAppended(m, run_options, source, source_type, program) ==
    IF ~IsTypescriptDefinition(source_type)
    THEN LET m1 == IF run_options.scope
                   THEN [Stage(m, "scope_text") EXCEPT !.oxc.scope_text = @ \o <<"scopes", program>>]
                   ELSE m
         IN  IF run_options.symbol
             THEN IF source.encoding_fails
                  THEN [Stage(m1, "symbols") EXCEPT !.ret = "Err"]
                  ELSE [Stage(m1, "symbols") EXCEPT !.oxc.symbols_json = <<"symbols", program>>]
             ELSE m1
    ELSE m

\* The scope and symbol views. get_symbols_text fails when serde_json fails
\* to encode, and `?` returns that error from run.
Views(m, run_options, source, source_type, program) ==
    IF ~IsTypescriptDefinition(source_type)
    THEN LET m1 == IF run_options.scope
                   THEN [Stage(m, "scope_text") EXCEPT !.oxc.scope_text = <<"scopes", program>>]
                   ELSE m
         IN  IF run_options.symbol
             THEN IF source.encoding_fails
                  THEN [Stage(m1, "symbols") EXCEPT !.ret = "Err"]
                  ELSE [Stage(m1, "symbols") EXCEPT !.oxc.symbols_json = <<"symbols", program>>]
             ELSE m1
    ELSE m

\* enable_sourcemap.unwrap_or_default().then(|| path.clone())
SourceMapPath(options) == IF options.enable_sourcemap THEN Some(PathOf(options)) ELSE None

\* A bug to compare with: the errors of the generator fail the call.
IsolatedDeclarationsFailing(m, options, source, program) ==
    LET m1 == Stage(m, "isolated_declarations")
    IN  IF source.isolated_errors = <<>>
        THEN LET codegen_result ==
                     Codegen(<<"declarations", program>>, None, FALSE, SourceMapPath(options))
             IN  [Stage(m1, "isolated_codegen") EXCEPT
                    !.oxc.codegen_text = codegen_result.code,
                    !.oxc.codegen_sourcemap_text = codegen_result.map]
        ELSE [m1 EXCEPT !.ret = "Err"]

\* A bug to compare with: a failed generation leaves the code of the call
\* before in place.
IsolatedDeclarationsStale(m, options, source, program) ==
    LET m1 == Stage(m, "isolated_declarations")
    IN  IF source.isolated_errors = <<>>
        THEN LET codegen_result ==
                     Codegen(<<"declarations", program>>, None, FALSE, SourceMapPath(options))
             IN  [Stage(m1, "isolated_codegen") EXCEPT
                    !.oxc.codegen_text = codegen_result.code,
                    !.oxc.codegen_sourcemap_text = codegen_result.map]
        ELSE SaveDiagnostics(m1, source.isolated_errors)

\* The isolated declarations branch of run, up to its `return Ok(())`.
IsolatedDeclarations(m, options, source, program) ==
    LET m1 == Stage(m, "isolated_declarations")
    IN  IF source.isolated_errors = <<>>
        THEN LET codegen_result ==
                     Codegen(<<"declarations", program>>, None, FALSE, SourceMapPath(options))
             IN  [Stage(m1, "isolated_codegen") EXCEPT
                    !.oxc.codegen_text = codegen_result.code,
                    !.oxc.codegen_sourcemap_text = codegen_result.map]
        ELSE [SaveDiagnostics(m1, source.isolated_errors) EXCEPT
                !.oxc.codegen_text = <<>>,
                !.oxc.codegen_sourcemap_text = None]

\* A bug to compare with: a target that does not resolve ends the
\* transformation.
TransformNoFallback(m, options, source, program) ==
    LET resolved == IF IsSome(options.target) THEN FromTarget(Unwrap(options.target))
                    ELSE [ok |-> FALSE]
        transform_options == IF resolved.ok THEN resolved.options ELSE <<"default">>
        m2 == Stage(m, "transformer")
    IN  IF IsSome(options.target) /\ ~resolved.ok
        THEN [ m |-> SaveDiagnostics(m, << Diagnostic("Error", resolved.err, None) >>),
               program |-> program ]
        ELSE [ m |-> IF source.transform_errors /= <<>>
                     THEN SaveDiagnostics(m2, source.transform_errors)
                     ELSE m2,
               program |-> [program EXCEPT !.transformed = Some(transform_options)] ]

\* The transformer of run: the target resolved, or an error saved and the
\* default options; then the errors of the transformer.
Transform(m, options, source, program) ==
    LET resolved == IF IsSome(options.target) THEN FromTarget(Unwrap(options.target))
                    ELSE [ok |-> FALSE]
        m1 == IF IsSome(options.target) /\ ~resolved.ok
              THEN SaveDiagnostics(m, << Diagnostic("Error", resolved.err, None) >>)
              ELSE m
        transform_options == IF resolved.ok THEN resolved.options ELSE <<"default">>
        m2 == Stage(m1, "transformer")
    IN  [ m |-> IF source.transform_errors /= <<>>
                THEN SaveDiagnostics(m2, source.transform_errors)
                ELSE m2,
          program |-> [program EXCEPT !.transformed = Some(transform_options)] ]

\* CompressOptions::all_false()
AllFalse == [drop_console |-> FALSE, drop_debugger |-> FALSE]

\* A bug to compare with: drop_console and drop_debugger reach the minifier
\* whenever it runs.
MinifierStageDropAlways(m, options, program) ==
    IF options.compress \/ options.mangle
    THEN LET minifier_options ==
                 [ mangle |-> IF options.mangle THEN Some("MangleOptions::default") ELSE None,
                   compress |-> Some([AllFalse EXCEPT
                                        !.drop_console = options.drop_console,
                                        !.drop_debugger = options.drop_debugger]) ]
             minified == Minify(program, minifier_options)
         IN  [m |-> Stage(m, "minifier"), program |-> minified.program,
              symbol_table |-> minified.scoping]
    ELSE [m |-> m, program |-> program, symbol_table |-> None]

\* The minifier of run.
MinifierStage(m, options, program) ==
    IF options.compress \/ options.mangle
    THEN LET minifier_options ==
                 [ mangle |-> IF options.mangle THEN Some("MangleOptions::default") ELSE None,
                   compress |-> Some(IF options.compress
                                     THEN [AllFalse EXCEPT
                                             !.drop_console = options.drop_console,
                                             !.drop_debugger = options.drop_debugger]
                                     ELSE AllFalse) ]
             minified == Minify(program, minifier_options)
         IN  [m |-> Stage(m, "minifier"), program |-> minified.program,
              symbol_table |-> minified.scoping]
    ELSE [m |-> m, program |-> program, symbol_table |-> None]

\* A bug to compare with: the source map is assigned only when the code
\* generator made one.
FinishKeepsMap(m, options, program, symbol_table) ==
    LET codegen_result == Codegen(program, symbol_table, options.whitespace, SourceMapPath(options))
        m1 == [Stage(m, "codegen") EXCEPT
                 !.oxc.codegen_text = codegen_result.code,
                 !.oxc.codegen_sourcemap_text =
                     IF IsSome(codegen_result.map) THEN codegen_result.map ELSE @]
        m2 == [Stage(m1, "ir") EXCEPT !.oxc.ir = <<"debug", program>>]
        m3 == Stage(Stage(Stage(m2, "convert_program"), "ast_json"), "map_comments")
    IN  [m3 EXCEPT !.oxc = ConvertAst(@, program)]

\* The end of run: code generation, the ir, convert_ast.
Finish(m, options, program, symbol_table) ==
    LET codegen_result == Codegen(program, symbol_table, options.whitespace, SourceMapPath(options))
        m1 == [Stage(m, "codegen") EXCEPT
                 !.oxc.codegen_text = codegen_result.code,
                 !.oxc.codegen_sourcemap_text = codegen_result.map]
        m2 == [Stage(m1, "ir") EXCEPT !.oxc.ir = <<"debug", program>>]
        m3 == Stage(Stage(Stage(m2, "convert_program"), "ast_json"), "map_comments")
    IN  [m3 EXCEPT !.oxc = ConvertAst(@, program)]

\* run from `if run_options.transform` on when the isolated declarations
\* branch is not taken.
Standard(m, options, source, program) ==
    LET t == IF options.transform
             THEN Transform(m, options, source, program)
             ELSE [m |-> m, program |-> program]
        n == MinifierStage(t.m, options, t.program)
    IN  Finish(n.m, options, n.program, n.symbol_table)

\* A bug to compare with: the isolated declarations branch does not return.
OutputNoReturn(m, options, source, program) ==
    IF options.transform /\ options.isolated_declarations = Some(TRUE)
    THEN Standard(IsolatedDeclarations(m, options, source, program),
                  [options EXCEPT !.transform = FALSE], source, program)
    ELSE Standard(m, options, source, program)

\* run from `if run_options.transform` on.
Output(m, options, source, program) ==
    IF options.transform /\ options.isolated_declarations = Some(TRUE)
    THEN IsolatedDeclarations(m, options, source, program)
    ELSE Standard(m, options, source, program)

\* A bug to compare with: the error of get_symbols_text is returned at the
\* end of the call.
RunErrorAtEnd(self, source, options) ==
    LET source_type == SourceTypeOf(options)
        program == Parse(source, source_type, ParseOptionsOf(options))
        m1 == Analyse(Enter(self), options, source, program)
        m2 == RunLinter(m1, options, source, program)
        m3 == RunPrettier(m2, options, source, source_type)
        m4 == Views(m3, options, source, source_type, program)
    IN  Output(m4, options, source, program)

\* Oxc::run
Run(self, source, options) ==
    LET source_type == SourceTypeOf(options)
        program == Parse(source, source_type, ParseOptionsOf(options))
        m1 == Analyse(Enter(self), options, source, program)
        m2 == RunLinter(m1, options, source, program)
        m3 == RunPrettier(m2, options, source, source_type)
        m4 == Views(m3, options, source, source_type, program)
    IN  IF m4.ret = "Err" THEN m4 ELSE Output(m4, options, source, program)

\* ------------------------------------------------------------------ inputs
\* The sources run is called with, by what the stages report for them.

\* Nothing to report.
SrcClean ==
    Source(MakeText(<<"a">>, <<"a">>, <<"a">>, <<>>), <<>>, <<>>, <<>>, <<>>, <<>>, FALSE)

\* A syntax error, a semantic error and a pattern the linter reports; the
\* declaration generator and the transformer report errors too.
SrcBroken ==
    Source(MakeText(<<>>, <<>>, <<"a">>, <<"a">>),
           << Diagnostic("Error", "Unexpected token", Some(<< Label(1, 1) >>)) >>,
           << Diagnostic("Error", "Identifier has already been declared",
                         Some(<< Label(0, 1), Label(2, 1) >>)) >>,
           << Diagnostic("Warning", "eslint(no-debugger)", Some(<< Label(0, 1) >>)) >>,
           << Diagnostic("Error", "TS9007", Some(<< Label(0, 1) >>)) >>,
           << Diagnostic("Error", "Unsupported syntax", None) >>,
           FALSE)

\* Valid syntax with a 4-byte character; the linter reports two patterns and
\* the declaration generator an error.
SrcLint ==
    Source(MakeText(CharBytes("e4"), <<>>, <<"a">>, <<>>),
           <<>>, <<>>,
           << Diagnostic("Warning", "eslint(no-debugger)", Some(<< Label(4, 1) >>)),
              Diagnostic("Warning", "eslint(no-unused-vars)", Some(<< Label(8, 1) >>)) >>,
           << Diagnostic("Error", "TS9010", Some(<< Label(8, 1) >>)) >>,
           <<>>,
           FALSE)

\* Valid syntax; the symbol table fails to encode.
SrcOpaque ==
    Source(MakeText(<<>>, <<"a">>, <<>>, <<>>), <<>>, <<>>, <<>>, <<>>, <<>>, TRUE)

Call(sources, options) == { [source |-> s, options |-> o] : s \in sources, o \in options }

Flag(b) == IF b THEN Some(TRUE) ELSE None

\* The calls of run explored: groups of options varied together over the
\* sources they matter for, the other options at their defaults.
Inputs ==
    Call({SrcClean, SrcBroken, SrcLint},
         { [DefaultOptions EXCEPT !.syntax = a, !.lint = b] : a \in BOOLEAN, b \in BOOLEAN })
    \cup
    Call({SrcClean, SrcOpaque},
         { [DefaultOptions EXCEPT !.scope = a, !.symbol = b,
                                  !.source_filename = IF c THEN Some("lib.d.ts") ELSE None]
             : a \in BOOLEAN, b \in BOOLEAN, c \in BOOLEAN })
    \cup
    Call({SrcClean, SrcLint},
         { [DefaultOptions EXCEPT !.transform = a, !.isolated_declarations = Flag(b),
                                  !.whitespace = c, !.enable_sourcemap = d]
             : a \in BOOLEAN, b \in BOOLEAN, c \in BOOLEAN, d \in BOOLEAN })
    \cup
    Call({SrcClean},
         { [DefaultOptions EXCEPT !.transform = TRUE, !.isolated_declarations = Some(a),
                                  !.mangle = b, !.compress = c]
             : a \in BOOLEAN, b \in BOOLEAN, c \in BOOLEAN })
    \cup
    Call({SrcClean, SrcBroken},
         { [DefaultOptions EXCEPT !.transform = TRUE, !.syntax = a, !.target = t]
             : a \in BOOLEAN, t \in {None, Some("es2015"), Some("es1")} })
    \cup
    Call({SrcClean},
         { [DefaultOptions EXCEPT !.mangle = a, !.compress = b,
                                  !.drop_console = c, !.drop_debugger = d]
             : a \in BOOLEAN, b \in BOOLEAN, c \in BOOLEAN, d \in BOOLEAN })
    \cup
    Call({SrcClean, SrcLint},
         { [DefaultOptions EXCEPT !.prettier_format = a, !.prettier_ir = b]
             : a \in BOOLEAN, b \in BOOLEAN })
    \cup
    Call({SrcClean},
         { [DefaultOptions EXCEPT !.verbose = TRUE],
           [DefaultOptions EXCEPT !.source_type = Some("script")],
           [DefaultOptions EXCEPT !.source_type = Some("module")],
           [DefaultOptions EXCEPT !.allow_return_outside_function = Some(TRUE)],
           [DefaultOptions EXCEPT !.preserve_parens = Some(FALSE)],
           [DefaultOptions EXCEPT !.allow_v8_intrinsics = Some(TRUE)] })
    \cup
    Call({SrcBroken},
         { [DefaultOptions EXCEPT !.transform = TRUE, !.target = Some("es1"),
                                  !.lint = a, !.mangle = b]
             : a \in BOOLEAN, b \in BOOLEAN })
    \cup
    Call({SrcOpaque},
         { [DefaultOptions EXCEPT !.symbol = TRUE, !.transform = a,
                                  !.isolated_declarations = Flag(b), !.mangle = c]
             : a \in BOOLEAN, b \in BOOLEAN, c \in BOOLEAN })
    \cup
    Call({SrcLint, SrcOpaque},
         { [o EXCEPT !.prettier_format = TRUE, !.prettier_ir = TRUE] : o \in
           { [DefaultOptions EXCEPT !.transform = TRUE, !.isolated_declarations = Some(TRUE)],
             [DefaultOptions EXCEPT !.syntax = TRUE, !.lint = TRUE],
             [DefaultOptions EXCEPT !.mangle = TRUE, !.compress = TRUE],
             [DefaultOptions EXCEPT !.preserve_parens = Some(FALSE),
                                    !.allow_return_outside_function = Some(TRUE)],
             [DefaultOptions EXCEPT !.source_filename = Some("lib.d.ts")],
             [DefaultOptions EXCEPT !.symbol = TRUE] } })

\* ----------------------------------------------------------- specification

NoHist ==
    [trace |-> <<>>, saved |-> <<>>, sinks |-> <<>>, gate |-> None, entry |-> <<>>,
     held |-> {}, repeated |-> FALSE]

\* The record of a call of run that found the driver as `self`.
HistOf(m, self, repeated) ==
    [trace |-> m.trace, saved |-> m.saved, sinks |-> m.sinks, gate |-> m.gate,
     entry |-> self.diagnostics,
     held |-> { f \in DOMAIN self : self[f] /= NewOxc[f] },
     repeated |-> repeated]

\* ScopesTextWriter::new: the lines written, indent, and space.len().
NoWriter == [scope_text |-> <<>>, indent |-> 0, space |-> 0]

NoVisit == [pc |-> "idle", stack |-> <<>>, scopes |-> 0]

\* A driver just constructed.
Init ==
    /\ oxc = NewOxc
    /\ ret = "Ok"
    /\ input = None
    /\ hist = NoHist
    /\ runs = 0
    /\ flat = None
    /\ writer = NoWriter
    /\ visit = NoVisit

\* A call of run.
RunCall ==
    /\ runs < MaxRuns
    /\ \E in \in Inputs :
         LET m == Run(oxc, in.source, in.options)
         IN  /\ oxc' = m.oxc
             /\ ret' = m.ret
             /\ hist' = HistOf(m, oxc, input = Some(in))
             /\ input' = Some(in)
             /\ runs' = runs + 1
    /\ UNCHANGED <<flat, writer, visit>>

Next == RunCall

Spec == Init /\ [][Next]_vars

\* ------------------------------------------------------- claims on run

\* The input of the last call of run.
LastSource == Unwrap(input).source
LastOptions == Unwrap(input).options

\* The stages the last call ran.
Ran(stage) == stage \in Range(hist.trace)

\* What a driver just constructed holds after the last call's input.
Fresh == Run(NewOxc, LastSource, LastOptions)

\* C1: after a call of run every field of the driver is determined by that
\* call's source and options alone: it is what a driver just constructed
\* holds after the same call.
C1_FullyReset == runs > 0 => oxc = Fresh.oxc

\* C2: a call of run with the source and options of the call before it
\* leaves every field, the diagnostics and the result as they were.
C2_Idempotent ==
    [][(runs' = runs + 1 /\ input' = input) => (oxc' = oxc /\ ret' = ret)]_vars

\* A second call with the input of the first, whose sink and scope text are
\* not empty.
C2_Witness ==
    /\ runs = 2 /\ hist.repeated
    /\ (oxc.diagnostics /= <<>> \/ oxc.scope_text /= <<>>)

\* The errors the stages of the last call reported.
Recorded(errors) == Range(errors) \subseteq Range(oxc.diagnostics)

\* C3: run fails exactly when the symbol table is asked for, the source is
\* no declaration file and the table fails to encode; the errors of the
\* parser and the analyser (when asked for), of the linter, of the target,
\* of the transformer and of the declaration generator are in the
\* diagnostics of a call that returns Ok.
C3_OnlyEncodingFails ==
    runs > 0 =>
      /\ ret = "Err" <=> /\ LastOptions.symbol
                         /\ ~IsTypescriptDefinition(SourceTypeOf(LastOptions))
                         /\ LastSource.encoding_fails
      /\ ret \in {"Ok", "Err"}
      /\ LastOptions.syntax => Recorded(LastSource.syntax_errors \o LastSource.semantic_errors)
      /\ Ran("linter") => Recorded(LastSource.lint)
      /\ Ran("isolated_declarations") => ret = "Ok" /\ Recorded(LastSource.isolated_errors)
      /\ Ran("transformer") =>
           /\ ret = "Ok"
           /\ Recorded(LastSource.transform_errors)
           /\ LastOptions.target = Some("es1") =>
                Recorded(<< Diagnostic("Error", "Invalid target", None) >>)

\* A call that returned Ok with syntax errors, semantic errors, an unknown
\* target and transformer errors.
C3_Witness ==
    /\ runs > 0 /\ ret = "Ok"
    /\ LastSource = SrcBroken /\ LastOptions.syntax /\ LastOptions.target = Some("es1")
    /\ Len(oxc.diagnostics) = 4

\* C4: the linter runs exactly when lint is asked for and the sink is empty
\* as run_linter finds it; with syntax and lint both asked for and an error
\* of the parser or the analyser, no diagnostic of the linter is in the list.
C4_LintGate ==
    runs > 0 =>
      /\ Ran("linter") <=> (LastOptions.lint /\ hist.gate = Some(<<>>))
      /\ ( /\ LastOptions.syntax /\ LastOptions.lint
           /\ LastSource.syntax_errors \o LastSource.semantic_errors /= <<>> )
         => Range(oxc.diagnostics) \cap Range(LastSource.lint) = {}

\* Syntax and lint asked for on a source with a syntax error and a pattern
\* the linter reports.
C4_Witness ==
    /\ runs > 0 /\ LastOptions.syntax /\ LastOptions.lint
    /\ LastSource.syntax_errors /= <<>> /\ LastSource.lint /= <<>>
    /\ oxc.diagnostics = LastSource.syntax_errors \o LastSource.semantic_errors

StandardStages ==
    {"transformer", "minifier", "codegen", "ir", "convert_program", "ast_json", "map_comments"}

\* C5: a call with transform and isolated_declarations set that reaches the
\* declaration generator returns right after it: no stage of the standard
\* path runs, and codegen_text is the same whatever whitespace, mangle and
\* compress are.
C5_IsolatedShortCircuit ==
    (runs > 0 /\ LastOptions.transform /\ LastOptions.isolated_declarations = Some(TRUE)) =>
      /\ Range(hist.trace) \cap StandardStages = {}
      /\ ret = "Ok" =>
           /\ hist.trace[Len(hist.trace)] \in {"isolated_declarations", "isolated_codegen"}
           /\ \A w \in BOOLEAN, mg \in BOOLEAN, c \in BOOLEAN :
                Run(NewOxc, LastSource,
                    [LastOptions EXCEPT !.whitespace = w, !.mangle = mg, !.compress = c]
                   ).oxc.codegen_text = oxc.codegen_text

\* Isolated declarations generated with whitespace set.
C5_Witness ==
    /\ runs > 0 /\ ret = "Ok"
    /\ LastOptions.transform /\ LastOptions.isolated_declarations = Some(TRUE)
    /\ LastOptions.whitespace
    /\ Ran("isolated_codegen") /\ oxc.codegen_text /= <<>>

\* C6: after a call on a declaration file scope_text and symbols_json are
\* empty, whatever calls came before.
C6_DeclarationFileSkip ==
    (runs > 0 /\ IsTypescriptDefinition(SourceTypeOf(LastOptions))) =>
      (oxc.scope_text = <<>> /\ oxc.symbols_json = <<>>)

\* C10: after a call of run the sink holds exactly the diagnostics saved
\* during that call, in the order saved.
C10_SinkReset == runs > 0 => oxc.diagnostics = hist.saved

\* A call that found diagnostics in the sink and left by the isolated
\* declarations branch, saving the errors of the generator.
C10_Witness ==
    /\ runs > 0 /\ hist.entry /= <<>>
    /\ Ran("isolated_declarations") /\ ~Ran("isolated_codegen")
    /\ oxc.diagnostics = LastSource.isolated_errors

\* ------------------------------------------------------- get_diagnostics
\* get_diagnostics on the lists the stages can leave in the sink.

LabelSet == { Label(0, 1), Label(3, 2) }

\* labels: None, or Some of a Vec, which with_labels can leave empty.
LabelsSet == {None} \cup { Some(ls) : ls \in SeqUpTo(LabelSet, MaxLabels) }

DiagnosticSet ==
    { Diagnostic(k[1], k[2], ls) :
        k \in { <<"Error", "Unexpected token">>, <<"Warning", "eslint(no-debugger)">> },
        ls \in LabelsSet }

InitDiag ==
    /\ oxc \in { [NewOxc EXCEPT !.diagnostics = d] : d \in SeqUpTo(DiagnosticSet, MaxDiags) }
    /\ ret = "Ok"
    /\ input = None
    /\ hist = NoHist
    /\ runs = 0
    /\ flat = None
    /\ writer = NoWriter
    /\ visit = NoVisit

\* A call of get_diagnostics.
GetDiagnosticsCall ==
    /\ flat' = Some(GetDiagnostics(oxc.diagnostics))
    /\ UNCHANGED <<oxc, ret, input, hist, runs, writer, visit>>

NextDiag == GetDiagnosticsCall

SpecDiag == InitDiag /\ [][NextDiag]_vars

\* The records the claim gives one diagnostic.
FlatRecords(error) ==
    LET n == IF IsSome(error.labels) THEN Len(Unwrap(error.labels)) ELSE 0
    IN  IF n = 0
        THEN << [start |-> 0, end |-> 0, severity |-> error.severity, message |-> error.message] >>
        ELSE [ j \in 1..n |->
                 [ start |-> Unwrap(error.labels)[j].offset,
                   end |-> Unwrap(error.labels)[j].offset + Unwrap(error.labels)[j].len,
                   severity |-> error.severity,
                   message |-> error.message ] ]

\* C7: get_diagnostics returns, for each diagnostic in order, one record at
\* [0, 0] when it has no label (labels absent, or present and empty), else
\* one record per label in label order, from offset to offset + len, each
\* with the severity and message of the diagnostic.
C7_Flattening ==
    IsSome(flat) =>
      Unwrap(flat) = Concat([ i \in 1..Len(oxc.diagnostics) |-> FlatRecords(oxc.diagnostics[i]) ])

\* --------------------------------------------------------- span translation
\* run, once, on each of the texts, with the options at their defaults.

InitSpan == Init

RunTextCall ==
    /\ runs = 0
    /\ \E t \in Texts :
         LET in == [source |-> Source(t, <<>>, <<>>, <<>>, <<>>, <<>>, FALSE),
                    options |-> DefaultOptions]
             m == Run(oxc, in.source, in.options)
         IN  /\ oxc' = m.oxc
             /\ ret' = m.ret
             /\ hist' = HistOf(m, oxc, FALSE)
             /\ input' = Some(in)
             /\ runs' = runs + 1
    /\ UNCHANGED <<flat, writer, visit>>

NextSpan == RunTextCall

SpecSpan == InitSpan /\ [][NextSpan]_vars

\* The offsets of the spans of the last source and what they were translated
\* to: the tree spans in ast_json and the comment spans in comments.
Translations ==
    LET tree == oxc.ast_json[2].spans
    IN  UNION { { <<LastSource.spans[i].start, tree[i].start>>,
                  <<LastSource.spans[i].end, tree[i].end>> } : i \in 1..Len(tree) }
        \cup
        UNION { { <<LastSource.comments[i].span.start, oxc.comments[i].start>>,
                  <<LastSource.comments[i].span.end, oxc.comments[i].end>> }
                : i \in 1..Len(oxc.comments) }

Count(text, b) == Cardinality({ i \in 1..Len(text) : text[i] = b })

\* The byte offset of the only 4-byte character of a text that has one.
Wide(text) == (CHOOSE i \in 1..Len(text) : text[i] = "L4") - 1

\* C8: for an ASCII-only text every translated offset is its byte offset;
\* for a text that is ASCII but for one 4-byte character, every offset after
\* the character is translated to its byte offset minus 2 and every offset
\* before it to itself.
C8_SpanTranslation ==
    (runs > 0 /\ Ran("map_comments")) =>
      /\ Len(oxc.ast_json[2].spans) = Len(LastSource.spans)
      /\ Len(oxc.comments) = Len(LastSource.comments)
      /\ IsAscii(LastSource.text) => \A t \in Translations : t[2] = t[1]
      /\ (Count(LastSource.text, "L4") = 1 /\ Count(LastSource.text, "L2") = 0) =>
           \A t \in Translations :
             /\ t[1] >= Wide(LastSource.text) + 4 => t[2] = t[1] - 2
             /\ t[1] <= Wide(LastSource.text) => t[2] = t[1]

\* A text with one 4-byte character inside its block comment: the comment
\* starts before the character and ends after it, the line comment is after.
C8_Witness ==
    /\ runs > 0 /\ Ran("map_comments")
    /\ Count(LastSource.text, "L4") = 1 /\ Count(LastSource.text, "L2") = 0
    /\ LastSource.comments[1].span.start <= Wide(LastSource.text)
    /\ LastSource.comments[1].span.end > Wide(LastSource.text)
    /\ oxc.comments[1].end = LastSource.comments[1].span.end - 2
    /\ oxc.comments[2].start = LastSource.comments[2].span.start - 2

\* ---------------------------------------------------------- get_scope_text
\* A line of scope_text is the number of spaces written before it
\* (space[0..indent]), its text, and what the text names. The header of a
\* scope is "Scope {", the line of a binding starts with two spaces.

Line(prefix, text, arg) == [prefix |-> prefix, text |-> text, arg |-> arg]

\* ScopesTextWriter::write_line. The slice space[0..indent] needs
\* indent <= space.len().
WriteLine(w, text, arg) ==
    [w EXCEPT !.scope_text = Append(@, Line(IF w.indent <= w.space THEN w.indent ELSE -1, text, arg))]

\* ScopesTextWriter::indent_in
IndentIn(w) ==
    LET indent == w.indent + 2
    IN  [w EXCEPT !.indent = indent, !.space = IF @ < indent THEN @ + 2 ELSE @]

\* ScopesTextWriter::indent_out
IndentOut(w) == [w EXCEPT !.indent = @ - 2]

RECURSIVE WriteBindings(_, _)
WriteBindings(w, bindings) ==
    IF bindings = <<>> THEN w
    ELSE WriteBindings(WriteLine(w, "  binding", Head(bindings)), Tail(bindings))

\* Visit::enter_scope of the writer
EnterScopeWriter(w, scope_id, bindings) ==
    LET w1 == IndentIn(WriteLine(w, "Scope {", scope_id))
    IN  IF bindings /= <<>>
        THEN WriteLine(WriteBindings(WriteLine(w1, "Bindings: {", scope_id), bindings), "}", scope_id)
        ELSE w1

\* A bug to compare with: the closing line is written before indent_out.
LeaveScopeWriterLineFirst(w) == IndentOut(WriteLine(w, "}", -1))

\* Visit::leave_scope of the writer
LeaveScopeWriter(w) == WriteLine(IndentOut(w), "}", -1)

\* The bindings of a scope, in the order get_bindings iterates them.
BindingChoices == { <<>>, <<"x">>, <<"x", "y">> }

InitScope == Init

\* Visit::visit_program calls enter_scope and leave_scope in pairs, pre-order:
\* it enters the program's scope first, a scope only inside another, and
\* leaves the scope entered last.
CanEnter == visit.pc = "idle" \/ (visit.pc = "visiting" /\ visit.stack /= <<>>)
CanLeave == visit.pc = "visiting" /\ visit.stack /= <<>>

\* The visitor enters a scope: the program's, or one inside the scope it is
\* in. Scope ids are given in the order the scopes are entered.
EnterScope ==
    /\ CanEnter
    /\ visit.scopes < MaxScopes
    /\ \E bindings \in BindingChoices :
         writer' = EnterScopeWriter(writer, visit.scopes, bindings)
    /\ visit' = [pc |-> "visiting", stack |-> Append(visit.stack, visit.scopes),
                 scopes |-> visit.scopes + 1]
    /\ UNCHANGED <<oxc, ret, input, hist, runs, flat>>

\* The visitor leaves the scope it is in; visit_program returns when it
\* leaves the program's scope.
LeaveScope ==
    /\ CanLeave
    /\ writer' = LeaveScopeWriter(writer)
    /\ visit' = [visit EXCEPT !.stack = SubSeq(@, 1, Len(@) - 1),
                              !.pc = IF Len(visit.stack) = 1 THEN "done" ELSE "visiting"]
    /\ UNCHANGED <<oxc, ret, input, hist, runs, flat>>

NextScope == EnterScope \/ LeaveScope

SpecScope == InitScope /\ [][NextScope]_vars

\* Reading the text back: the lines that open ("... {") and close ("}") are
\* matched as brackets. open: the opening lines not yet closed, innermost
\* last; pairs: <<opening line, its closing line>>; before[k]: how many
\* lines were open before line k; stray: closing lines with nothing open.
RECURSIVE Scan(_, _, _)
Scan(lines, k, acc) ==
    IF k > Len(lines) THEN acc
    ELSE LET l == lines[k]
             seen == [acc EXCEPT !.before = Append(@, Len(acc.open))]
         IN  CASE l.text \in {"Scope {", "Bindings: {"} ->
                    Scan(lines, k + 1, [seen EXCEPT !.open = Append(@, k)])
               [] l.text = "}" /\ acc.open /= <<>> ->
                    Scan(lines, k + 1,
                         [seen EXCEPT !.open = SubSeq(@, 1, Len(@) - 1),
                                      !.pairs = @ \cup { <<acc.open[Len(acc.open)], k>> }])
               [] l.text = "}" /\ acc.open = <<>> ->
                    Scan(lines, k + 1, [seen EXCEPT !.stray = @ + 1])
               [] OTHER -> Scan(lines, k + 1, seen)

Read(lines) == Scan(lines, 1, [open |-> <<>>, pairs |-> {}, before |-> <<>>, stray |-> 0])

\* The spaces a line starts with.
Indentation(l) == l.prefix + (IF l.text = "  binding" THEN 2 ELSE 0)

\* C9: at every point of the visit, indent is two spaces per scope entered
\* and not left; every scope entered has exactly one header line; the
\* headers not yet closed are those of the scopes not yet left; every
\* closing line closes a line that opened, the closing line of a header is
\* indented as the header; every line is indented by two spaces per line
\* open before it; when the visit is done every header has its closing line
\* and indent is zero.
C9_ScopeBalance ==
    LET lines == writer.scope_text
        r == Read(lines)
        headers == { i \in 1..Len(lines) : lines[i].text = "Scope {" }
        closers(i) == { p[2] : p \in { q \in r.pairs : q[1] = i } }
    IN  /\ writer.indent = 2 * Len(visit.stack)
        /\ \A s \in 0..(visit.scopes - 1) :
             Cardinality({ i \in headers : lines[i].arg = s }) = 1
        /\ Cardinality(headers) = visit.scopes
        /\ r.stray = 0
        /\ [ i \in 1..Len(r.open) |-> lines[r.open[i]].arg ] = visit.stack
        /\ \A i \in headers :
             /\ Cardinality(closers(i)) <= 1
             /\ \A j \in closers(i) : lines[j].prefix = lines[i].prefix
        /\ \A k \in 1..Len(lines) :
             Indentation(lines[k]) = 2 * (r.before[k] - (IF lines[k].text = "}" THEN 1 ELSE 0))
        /\ visit.pc = "done" =>
             /\ writer.indent = 0
             /\ r.open = <<>>
             /\ \A i \in headers : Cardinality(closers(i)) = 1

\* A visit that is done, of three scopes or more nested three deep, one of
\* them with bindings.
C9_Witness ==
    /\ visit.pc = "done" /\ visit.scopes >= 3
    /\ \E k \in 1..Len(writer.scope_text) :
         writer.scope_text[k].text = "Scope {" /\ writer.scope_text[k].prefix = 4
    /\ \E k \in 1..Len(writer.scope_text) : writer.scope_text[k].text = "Bindings: {"

\* ---------------------------------------------------------------------
\* The order of the diagnostics of a call
\* ---------------------------------------------------------------------

\* What the stages of the last call reported, one batch a stage, in the
\* order run places the stages: parser, semantic analyser, linter, target,
\* declaration generator, transformer.
StageBatches ==
    << IF LastOptions.syntax THEN LastSource.syntax_errors ELSE <<>>,
       IF LastOptions.syntax THEN LastSource.semantic_errors ELSE <<>>,
       IF Ran("linter") THEN LastSource.lint ELSE <<>>,
       IF Ran("transformer") /\ LastOptions.target = Some("es1")
       THEN << Diagnostic("Error", "Invalid target", None) >> ELSE <<>>,
       IF Ran("isolated_declarations") THEN LastSource.isolated_errors ELSE <<>>,
       IF Ran("transformer") THEN LastSource.transform_errors ELSE <<>> >>

IsPrefix(s, t) == Len(s) <= Len(t) /\ SubSeq(t, 1, Len(s)) = s

\* C11: after a call the sink holds the batches of the stages in the order
\* of the stages, each batch in the order it was reported; get_diagnostics
\* flattens the sink into the flattened batches in that same order; and
\* every save_diagnostics of the call left what the sink held in front of
\* what it added.
C11_ArrivalOrder ==
    runs > 0 =>
      /\ oxc.diagnostics = Concat(StageBatches)
      /\ GetDiagnostics(oxc.diagnostics) =
           Concat([ i \in 1..Len(StageBatches) |-> GetDiagnostics(StageBatches[i]) ])
      /\ \A i \in 1..Len(hist.sinks) :
           IsPrefix(IF i = 1 THEN <<>> ELSE hist.sinks[i - 1], hist.sinks[i])
      /\ hist.sinks /= <<>> => oxc.diagnostics = hist.sinks[Len(hist.sinks)]

\* A call that saved three batches: syntax and semantic errors, the error
\* of the target, the errors of the transformer.
C11_Witness ==
    /\ runs > 0
    /\ Len(hist.sinks) = 3
    /\ LastSource.syntax_errors /= <<>>
    /\ LastSource.transform_errors /= <<>>
    /\ Len(oxc.diagnostics) >= 4
    /\ oxc.diagnostics[1] = LastSource.syntax_errors[1]
    /\ oxc.diagnostics[Len(oxc.diagnostics)] =
         LastSource.transform_errors[Len(LastSource.transform_errors)]

\* ---------------------------------------------------------------------
\* The linter and the errors of the parser and the analyser
\* ---------------------------------------------------------------------

\* C12: in every call, whatever its options, when the parser or the
\* semantic analyser reported an error for the source the linter did not
\* run and the sink holds nothing of the linter.
C12_NoLintOnSyntaxErrors ==
    (runs > 0 /\ LastSource.syntax_errors \o LastSource.semantic_errors /= <<>>) =>
      /\ ~Ran("linter")
      /\ Range(LastSource.lint) \cap Range(oxc.diagnostics) = {}

\* ---------------------------------------------------------------------
\* The declaration generator failing
\* ---------------------------------------------------------------------

\* The symbol table of the last call was asked for and failed to encode.
EncodingFailed ==
    /\ LastOptions.symbol
    /\ ~IsTypescriptDefinition(SourceTypeOf(LastOptions))
    /\ LastSource.encoding_fails

IsSuffix(s, t) == Len(s) <= Len(t) /\ SubSeq(t, Len(t) - Len(s) + 1, Len(t)) = s

\* C13: a call with transform and isolated_declarations set whose
\* declaration generator reports errors (and whose symbol table did not
\* fail before) ends with the errors at the end of the sink, codegen_text
\* empty and codegen_sourcemap_text None whatever they held, no stage run
\* after the generator, and Ok returned.
C13_IsolatedFailure ==
    ( /\ runs > 0
      /\ LastOptions.transform /\ LastOptions.isolated_declarations = Some(TRUE)
      /\ LastSource.isolated_errors /= <<>>
      /\ ~EncodingFailed ) =>
      /\ Ran("isolated_declarations")
      /\ IsSuffix(LastSource.isolated_errors, oxc.diagnostics)
      /\ oxc.codegen_text = <<>>
      /\ oxc.codegen_sourcemap_text = None
      /\ ret = "Ok"
      /\ hist.trace[Len(hist.trace)] = "isolated_declarations"
      /\ Range(hist.trace) \cap StandardStages = {}

\* The generator failed in a call that found code and a source map from the
\* call before.
C13_Witness ==
    /\ runs > 1 /\ ret = "Ok"
    /\ Ran("isolated_declarations") /\ ~Ran("isolated_codegen")
    /\ {"codegen_text", "codegen_sourcemap_text"} \subseteq hist.held
    /\ oxc.codegen_text = <<>>
    /\ oxc.diagnostics = LastSource.isolated_errors
    /\ oxc.diagnostics /= <<>>

\* ---------------------------------------------------------------------
\* The errors of the parser and the analyser, and run_options.syntax
\* ---------------------------------------------------------------------

\* C14: every call parses and analyses first (the control flow graph is
\* that of the call's program), and run_linter finds in the sink the
\* errors of the parser and then of the analyser if syntax is set, and
\* nothing if it is not.
C14_SyntaxGate ==
    runs > 0 =>
      /\ Len(hist.trace) >= 2
      /\ hist.trace[1] = "parser" /\ hist.trace[2] = "semantic"
      /\ oxc.control_flow_graph =
           << "cfg",
              Parse(LastSource, SourceTypeOf(LastOptions), ParseOptionsOf(LastOptions)),
              LastOptions.verbose >>
      /\ hist.gate = Some(IF LastOptions.syntax
                          THEN LastSource.syntax_errors \o LastSource.semantic_errors
                          ELSE <<>>)

\* A source with errors of the parser and the analyser, syntax unset: the
\* linter found the sink empty.
C14_Witness ==
    /\ runs > 0
    /\ ~LastOptions.syntax
    /\ LastSource.syntax_errors /= <<>> /\ LastSource.semantic_errors /= <<>>
    /\ Ran("parser") /\ Ran("semantic")
    /\ hist.gate = Some(<<>>)

\* ---------------------------------------------------------------------
\* When the spans are translated
\* ---------------------------------------------------------------------

\* How often, and where first, the last call ran a stage.
Times(stage) == Cardinality({ i \in 1..Len(hist.trace) : hist.trace[i] = stage })
Position(stage) == CHOOSE i \in 1..Len(hist.trace) : hist.trace[i] = stage

\* C15: a call that reaches convert_ast translates the tree once, after
\* the code and the ir were made of the untranslated tree and before the
\* tree is serialised, and every span of the tree and of the comments is
\* its byte span translated once; a call that does not reach convert_ast
\* translates nothing.
C15_TranslatedOnce ==
    runs > 0 =>
      /\ Times("convert_program") = (IF Ran("ast_json") THEN 1 ELSE 0)
      /\ Times("map_comments") = Times("convert_program")
      /\ Ran("ast_json") =>
           /\ Position("codegen") < Position("ir")
           /\ Position("ir") < Position("convert_program")
           /\ Position("convert_program") < Position("ast_json")
           /\ Position("ast_json") < Position("map_comments")
           /\ oxc.codegen_text[2].utf16 = 0
           /\ oxc.codegen_text[2].spans = LastSource.spans
           /\ oxc.ir[2].utf16 = 0
           /\ oxc.ir[2].spans = LastSource.spans
           /\ oxc.ast_json[2].utf16 = 1
           /\ \A t \in Translations : t[2] = Utf16Offset(LastSource.text, t[1])

\* A call on a text with a 4-byte character reached convert_ast: a span
\* behind the character was moved, and moving it again would move it further.
C15_Witness ==
    /\ runs > 0 /\ ret = "Ok"
    /\ Ran("codegen") /\ Ran("convert_program") /\ Ran("map_comments")
    /\ ~IsAscii(LastSource.text)
    /\ \E t \in Translations :
         /\ t[2] < t[1]
         /\ Utf16Offset(LastSource.text, t[2]) < t[2]

\* ---------------------------------------------------------------------
\* The comments of a call
\* ---------------------------------------------------------------------

\* C16: the comments of a call that reached map_comments are the comments
\* of the parser, one for one and in their order; each keeps its kind, its
\* text is the bytes of the source between its delimiters, found at the
\* byte offsets, and its start and end are the ends of its whole span
\* translated.
C16_CommentExtraction ==
    (runs > 0 /\ Ran("map_comments")) =>
      /\ Len(oxc.comments) = Len(LastSource.comments)
      /\ \A i \in 1..Len(oxc.comments) :
           LET raw == LastSource.comments[i]
               out == oxc.comments[i]
               open == raw.span.start + 2
               close == IF raw.kind = "Block" THEN raw.span.end - 2 ELSE raw.span.end
           IN  /\ out.type = raw.kind
               /\ SubSeq(LastSource.text, raw.span.start + 1, open) =
                    (IF raw.kind = "Block" THEN <<"/", "*">> ELSE <<"/", "/">>)
               /\ out.value = [ k \in 1..(close - open) |-> LastSource.text[open + k] ]
               /\ out.start = Utf16Offset(LastSource.text, raw.span.start)
               /\ out.end = Utf16Offset(LastSource.text, raw.span.end)

\* A block comment and a line comment with text, behind a character of more
\* than one byte: the spans moved, the texts are those at the byte offsets.
C16_Witness ==
    /\ runs > 0 /\ Ran("map_comments")
    /\ Len(oxc.comments) = 2
    /\ oxc.comments[1].type = "Block" /\ oxc.comments[2].type = "Line"
    /\ oxc.comments[1].value /= <<>> /\ oxc.comments[2].value /= <<>>
    /\ oxc.comments[1].start < LastSource.comments[1].span.start
    /\ oxc.comments[1].start > 0
    /\ IsAscii(oxc.comments[1].value)

\* ---------------------------------------------------------------------
\* A target that does not resolve
\* ---------------------------------------------------------------------

\* The last call asked for a target that TransformOptions::from_target
\* rejects.
TargetRejected ==
    /\ IsSome(LastOptions.target)
    /\ ~FromTarget(Unwrap(LastOptions.target)).ok

InvalidTarget == Diagnostic("Error", FromTarget(Unwrap(LastOptions.target)).err, None)

\* C17: a call with transform set, isolated_declarations not set and a
\* target that does not resolve (whose symbol table did not fail before)
\* has one error of the target in the sink, runs the transformer once with
\* the default options, goes on through the minifier when asked for, the
\* code generator and convert_ast, and returns Ok.
C17_TargetFallback ==
    ( /\ runs > 0
      /\ LastOptions.transform /\ LastOptions.isolated_declarations /= Some(TRUE)
      /\ TargetRejected
      /\ ~EncodingFailed ) =>
      /\ ret = "Ok"
      /\ Cardinality({ i \in 1..Len(oxc.diagnostics) : oxc.diagnostics[i] = InvalidTarget }) = 1
      /\ Times("transformer") = 1
      /\ oxc.codegen_text[2].transformed = Some(<<"default">>)
      /\ oxc.ast_json[2].transformed = Some(<<"default">>)
      /\ Ran("minifier") <=> (LastOptions.mangle \/ LastOptions.compress)
      /\ Ran("minifier") => IsSome(oxc.codegen_text[2].minified)
      /\ Ran("codegen") /\ Ran("ir") /\ Ran("ast_json") /\ Ran("map_comments")
      /\ hist.trace[Len(hist.trace)] = "map_comments"
      /\ Position("transformer") < Position("codegen")

\* The target "es1" with mangle set, on a source for which the transformer
\* reports an error: both errors are in the sink, the minifier ran.
C17_Witness ==
    /\ runs > 0 /\ ret = "Ok"
    /\ LastOptions.transform /\ TargetRejected /\ LastOptions.mangle
    /\ LastSource.transform_errors /= <<>>
    /\ Ran("transformer") /\ Ran("minifier") /\ Ran("map_comments")
    /\ InvalidTarget \in Range(oxc.diagnostics)
    /\ Range(LastSource.transform_errors) \subseteq Range(oxc.diagnostics)

\* ---------------------------------------------------------------------
\* The minifier
\* ---------------------------------------------------------------------

\* C18: in a call that reached the code generator the minifier ran (once)
\* if and only if mangle or compress is set; it was given drop_console and
\* drop_debugger if compress is set and every compression option off if
\* not, and the mangler's options if mangle is set; the code was generated
\* with the scoping the minifier returned (one if mangle is set) and
\* without scoping when the minifier did not run.
C18_MinifyGate ==
    (runs > 0 /\ Ran("codegen")) =>
      LET program == oxc.codegen_text[2]
          scoping == oxc.codegen_text[3]
      IN  /\ Ran("minifier") <=> (LastOptions.mangle \/ LastOptions.compress)
          /\ Times("minifier") <= 1
          /\ Ran("minifier") =>
               /\ Position("minifier") < Position("codegen")
               /\ IsSome(program.minified)
               /\ Unwrap(program.minified).compress =
                    Some([ drop_console |-> LastOptions.compress /\ LastOptions.drop_console,
                           drop_debugger |-> LastOptions.compress /\ LastOptions.drop_debugger ])
               /\ IsSome(Unwrap(program.minified).mangle) <=> LastOptions.mangle
               /\ IsSome(scoping) <=> LastOptions.mangle
               /\ IsSome(scoping) => Unwrap(scoping) = <<"scoping", program>>
          /\ ~Ran("minifier") =>
               /\ program.minified = None
               /\ scoping = None

\* mangle alone with drop_console set: the minifier ran with every
\* compression option off, and the code was generated with its scoping.
C18_Witness ==
    /\ runs > 0 /\ ret = "Ok"
    /\ LastOptions.mangle /\ ~LastOptions.compress /\ LastOptions.drop_console
    /\ Ran("minifier") /\ Ran("codegen")
    /\ Unwrap(oxc.codegen_text[2].minified).compress = Some(AllFalse)
    /\ IsSome(oxc.codegen_text[3])

\* ---------------------------------------------------------------------
\* The symbol table failing to encode
\* ---------------------------------------------------------------------

\* C19: a call whose symbol table is asked for and fails to encode returns
\* the error from get_symbols_text: that is the last stage it runs, the
\* declaration generator and the stages of the standard path do not run,
\* and symbols_json, codegen_text, codegen_sourcemap_text, ir, ast_json and
\* comments are as the call found them.
C19_EncodingAbort ==
    [][ (runs' = runs + 1 /\ EncodingFailed') =>
          /\ ret' = "Err"
          /\ hist'.trace[Len(hist'.trace)] = "symbols"
          /\ Range(hist'.trace) \cap
               ({"isolated_declarations", "isolated_codegen"} \cup StandardStages) = {}
          /\ oxc'.symbols_json = oxc.symbols_json
          /\ oxc'.codegen_text = oxc.codegen_text
          /\ oxc'.codegen_sourcemap_text = oxc.codegen_sourcemap_text
          /\ oxc'.ir = oxc.ir
          /\ oxc'.ast_json = oxc.ast_json
          /\ oxc'.comments = oxc.comments
      ]_vars

\* The symbol table failed to encode in a call with transform and mangle
\* set that found symbols, code, ir, tree and comments of the call before:
\* they are those of another source.
C19_Witness ==
    /\ runs > 1 /\ ret = "Err"
    /\ LastOptions.transform /\ LastOptions.mangle
    /\ {"symbols_json", "codegen_text", "ir", "ast_json", "comments"} \subseteq hist.held
    /\ oxc.symbols_json /= <<>>
    /\ oxc.ast_json[2].source_text /= LastSource.text
    /\ oxc.codegen_text[2].source_text /= LastSource.text

\* ---------------------------------------------------------------------
\* The formatter
\* ---------------------------------------------------------------------

\* The driver after a call on a driver just constructed with the source,
\* the source type and the formatter flags of a call, and every other
\* option at its default.
FormatOnly(source, options) ==
    Run(NewOxc, source,
        [DefaultOptions EXCEPT !.source_filename = options.source_filename,
                               !.source_type = options.source_type,
                               !.prettier_format = options.prettier_format,
                               !.prettier_ir = options.prettier_ir]).oxc

\* C20: a call writes prettier_formatted_text if and only if
\* prettier_format is set and prettier_ir_text if and only if prettier_ir
\* is set, and leaves them as it found them otherwise; what it writes is
\* made of the source as the parser gives it, not transformed, minified or
\* translated, and is what a call with the same source, source type and
\* formatter flags and no other option writes; formatted_text is never
\* written.
C20_FormatIndependence ==
    [][ runs' = runs + 1 =>
          /\ Ran("prettier_format")' <=> LastOptions'.prettier_format
          /\ Ran("prettier_ir")' <=> LastOptions'.prettier_ir
          /\ IF LastOptions'.prettier_format
             THEN /\ oxc'.prettier_formatted_text = FormatOnly(LastSource', LastOptions').prettier_formatted_text
                  /\ oxc'.prettier_formatted_text[2].source_text = LastSource'.text
                  /\ oxc'.prettier_formatted_text[2].transformed = None
                  /\ oxc'.prettier_formatted_text[2].minified = None
                  /\ oxc'.prettier_formatted_text[2].utf16 = 0
             ELSE oxc'.prettier_formatted_text = oxc.prettier_formatted_text
          /\ IF LastOptions'.prettier_ir
             THEN /\ oxc'.prettier_ir_text = FormatOnly(LastSource', LastOptions').prettier_ir_text
                  /\ oxc'.prettier_ir_text[2][2][2].source_text = LastSource'.text
                  /\ oxc'.prettier_ir_text[2][2][2].transformed = None
                  /\ oxc'.prettier_ir_text[2][2][2].minified = None
             ELSE oxc'.prettier_ir_text = oxc.prettier_ir_text
          /\ oxc'.formatted_text = oxc.formatted_text
      ]_vars

\* Both texts of the formatter written by a call that left through the
\* isolated declarations branch, the generator having failed.
C20_Witness ==
    /\ runs > 0 /\ ret = "Ok"
    /\ LastOptions.prettier_format /\ LastOptions.prettier_ir
    /\ LastOptions.transform /\ LastOptions.isolated_declarations = Some(TRUE)
    /\ hist.trace[Len(hist.trace)] = "isolated_declarations"
    /\ oxc.prettier_formatted_text = FormatOnly(LastSource, LastOptions).prettier_formatted_text
    /\ oxc.prettier_formatted_text /= <<>>
    /\ oxc.prettier_ir_text /= <<>>
    /\ oxc.codegen_text = <<>>

\* ---------------------------------------------------------------------
\* The code and the source map after a call that returned Ok
\* ---------------------------------------------------------------------

\* C21: after a call that returned Ok, codegen_text and
\* codegen_sourcemap_text are those the same call leaves on a driver just
\* constructed, whatever the calls before left: the call went through the
\* code generator of the standard path or through the isolated
\* declarations branch, which assign both; and codegen_sourcemap_text is
\* None when enable_sourcemap is not set.
C21_CodegenNotStale ==
    (runs > 0 /\ ret = "Ok") =>
      /\ Ran("codegen") \/ Ran("isolated_declarations")
      /\ ~(Ran("codegen") /\ Ran("isolated_declarations"))
      /\ oxc.codegen_text = Fresh.oxc.codegen_text
      /\ oxc.codegen_sourcemap_text = Fresh.oxc.codegen_sourcemap_text
      /\ Ran("codegen") \/ Ran("isolated_codegen") =>
           /\ oxc.codegen_text /= <<>>
           /\ (IF Ran("codegen") THEN oxc.codegen_text[2] ELSE oxc.codegen_text[2][2]
               ).source_text = LastSource.text
           /\ IsSome(oxc.codegen_sourcemap_text) <=> LastOptions.enable_sourcemap
      /\ ~LastOptions.enable_sourcemap => oxc.codegen_sourcemap_text = None

\* A call of the standard path without enable_sourcemap, on a driver that
\* held code and a source map of the call before: the map is None and the
\* code is that of the call's source.
C21_Witness ==
    /\ runs > 1 /\ ret = "Ok"
    /\ Ran("codegen")
    /\ ~LastOptions.enable_sourcemap
    /\ {"codegen_text", "codegen_sourcemap_text"} \subseteq hist.held
    /\ oxc.codegen_sourcemap_text = None
    /\ oxc.codegen_text[2].source_text = LastSource.text

====
